---- MODULE Spec2Model ----
(***************************************************************************)
(* embedded-sensors: the sensor capability traits (blocking and async),    *)
(* the error model, the &mut T forwarding impls generated by               *)
(* decl_threshold_traits!, and the mock drivers of the test modules.       *)
(*                                                                         *)
(* A Rust value of type Result<X, E> is a record [tag, val, err]; () is    *)
(* the empty tuple, Option::None is <<>> and Some(x) is <<x>>.  f32        *)
(* samples are copied bit for bit by every operation below, so they are    *)
(* modelled by integers standing for the values.                           *)
(***************************************************************************)
EXTENDS Integers, Sequences, FiniteSets, TLC

\* ---- bounds of the model ----
NumCallers == 2
MaxDepth == 2
MaxThreshold == 1
MaxWords == 2

\* ---- constants of the test modules ----
TEST_TEMP == 27
TEST_HUMIDITY == 65
TEST_INITIAL_THRESHOLD == 0

Callers == 1..NumCallers
Depths == 0..MaxDepth
Thresholds == 0..MaxThreshold

VARIABLES driver, sensor, holder, fut, alert, last, recent, classified,
          constructed, build

vars == <<driver, sensor, holder, fut, alert, last, recent, classified,
          constructed, build>>

\* ---- values ----
None == <<>>
Some(x) == <<x>>

Ok(v) == [tag |-> "Ok", val |-> v, err |-> "none"]
Err(e) == [tag |-> "Err", val |-> <<>>, err |-> e]
NoResult == [tag |-> "None", val |-> <<>>, err |-> "none"]

\* ---- error model (sensor.rs) ----
ErrorKind == {"Peripheral", "NotReady", "Saturated", "InvalidInput", "Other"}

ErrorKind_kind_other(e) == "Other"

\* impl Error for ErrorKind: kind(&self) = *self
ErrorKind_kind(e) == e

MockError_kind_peripheral(e) == "Peripheral"

\* impl Error for MockError: kind(&self) = ErrorKind::Other
MockError_kind(e) == "Other"

\* The error types a driver can name as its associated ErrorType::Error.
ErrorTypes == {"MockError", "ErrorKind", "Infallible"}

ErrorValues_inhabited(E) ==
    CASE E = "MockError" -> {"MockError"}
      [] E = "ErrorKind" -> ErrorKind
      [] E = "Infallible" -> {"Other"}

\* The values of each error type; Infallible has none.
ErrorValues(E) ==
    CASE E = "MockError" -> {"MockError"}
      [] E = "ErrorKind" -> ErrorKind
      [] E = "Infallible" -> {}

\* trait Error: kind(&self), dispatched on the concrete error type E.
\* Infallible's impl is `match *self {}`: there is no value to call it on.
kind(E, e) ==
    CASE E = "MockError" -> MockError_kind(e)
      [] E = "ErrorKind" -> ErrorKind_kind(e)

\* impl<T: ErrorType + ?Sized> ErrorType for &mut T { type Error = T::Error }
\* The error type seen through d handles on a driver whose error type is E.
RECURSIVE HandleErrorType(_, _)
HandleErrorType(d, E) ==
    IF d = 0 THEN E ELSE HandleErrorType(d - 1, E)

\* ---- drivers ----
BlockingMocks == {"MockTempSensor", "MockHumiditySensor"}
AsyncMocks == {"MockAsyncHumiditySensor"}
MockKinds == BlockingMocks \cup AsyncMocks

\* "T" is the type parameter of the forwarding impls: any implementor of
\* the capability traits.  The traits fix only the signatures, so the
\* outcome of each of T's operations (Ok or one of its errors) is an input.
Drivers ==
    [kind : BlockingMocks, profile : {"blocking"}, errType : {"MockError"}]
    \cup [kind : AsyncMocks, profile : {"async"}, errType : {"MockError"}]
    \cup [kind : {"T"}, profile : {"blocking", "async"}, errType : ErrorTypes]

\* The test modules construct each mock with its TEST_ value.
TestValue(k) ==
    IF k = "MockTempSensor" THEN TEST_TEMP ELSE TEST_HUMIDITY

\* MockAsyncHumiditySensor stores plain Percentage bounds, initially
\* TEST_INITIAL_THRESHOLD; the blocking mocks store Option<_>, initially None.
InitialThreshold(k) ==
    IF k \in AsyncMocks THEN TEST_INITIAL_THRESHOLD ELSE None

StoredThreshold(k, x) ==
    IF k \in AsyncMocks THEN x ELSE Some(x)

MockSensor(k, v) ==
    [value |-> v,
     threshold_low |-> InitialThreshold(k),
     threshold_high |-> InitialThreshold(k),
     hysteresis |-> None]

Ops == {"sample", "set_threshold_low", "set_threshold_high",
        "set_threshold_hysteresis", "wait_for_threshold"}

\* wait_for_<q>_threshold of the mock: the test module in src/ has no
\* ThresholdWait impl for MockAsyncHumiditySensor; the scenario of the
\* specification gives it one.
MockWaitCapability == {"wait_for_threshold"}

\* The capabilities each driver implements.
Capabilities(drv) ==
    CASE drv.kind \in BlockingMocks ->
           {"sample", "set_threshold_low", "set_threshold_high",
            "set_threshold_hysteresis"}
      [] drv.kind \in AsyncMocks ->
           {"sample", "set_threshold_low", "set_threshold_high"}
           \cup MockWaitCapability
      [] drv.kind = "T" /\ drv.profile = "blocking" ->
           Ops \ {"wait_for_threshold"}
      [] drv.kind = "T" /\ drv.profile = "async" -> Ops

temperature_const(s) == [result |-> Ok(<<TEST_TEMP>>), sensor |-> s]

\* ---- MockTempSensor (temperature.rs, mod tests) ----
temperature(s) == [result |-> Ok(<<s.value>>), sensor |-> s]

set_temperature_threshold_low_value(s, threshold) ==
    [result |-> Ok(<<>>),
     sensor |-> [s EXCEPT !.threshold_low = Some(threshold),
                          !.value = threshold]]

set_temperature_threshold_low(s, threshold) ==
    [result |-> Ok(<<>>),
     sensor |-> [s EXCEPT !.threshold_low = Some(threshold)]]

set_temperature_threshold_high_low(s, threshold) ==
    [result |-> Ok(<<>>),
     sensor |-> [s EXCEPT !.threshold_low = Some(threshold)]]

set_temperature_threshold_high(s, threshold) ==
    [result |-> Ok(<<>>),
     sensor |-> [s EXCEPT !.threshold_high = Some(threshold)]]

set_temperature_threshold_hysteresis(s, hysteresis) ==
    [result |-> Ok(<<>>),
     sensor |-> [s EXCEPT !.hysteresis = Some(hysteresis)]]

\* ---- MockHumiditySensor (humidity.rs, mod tests) ----
relative_humidity(s) == [result |-> Ok(<<s.value>>), sensor |-> s]

set_relative_humidity_threshold_low_ordered(s, threshold) ==
    IF s.threshold_high # None /\ threshold > s.threshold_high[1]
    THEN [result |-> Err("MockError"), sensor |-> s]
    ELSE [result |-> Ok(<<>>),
          sensor |-> [s EXCEPT !.threshold_low = Some(threshold)]]

set_relative_humidity_threshold_low(s, threshold) ==
    [result |-> Ok(<<>>),
     sensor |-> [s EXCEPT !.threshold_low = Some(threshold)]]

set_relative_humidity_threshold_high(s, threshold) ==
    [result |-> Ok(<<>>),
     sensor |-> [s EXCEPT !.threshold_high = Some(threshold)]]

set_relative_humidity_threshold_hysteresis_high(s, hysteresis) ==
    [result |-> Ok(<<>>),
     sensor |-> [s EXCEPT !.threshold_high = Some(hysteresis)]]

set_relative_humidity_threshold_hysteresis(s, hysteresis) ==
    [result |-> Ok(<<>>),
     sensor |-> [s EXCEPT !.hysteresis = Some(hysteresis)]]

async_relative_humidity_low(s) ==
    [result |-> Ok(<<s.threshold_low>>), sensor |-> s]

\* ---- MockAsyncHumiditySensor (embedded-sensors-async humidity.rs) ----
async_relative_humidity(s) == [result |-> Ok(<<s.value>>), sensor |-> s]

async_set_relative_humidity_threshold_low(s, threshold) ==
    [result |-> Ok(<<>>), sensor |-> [s EXCEPT !.threshold_low = threshold]]

async_set_relative_humidity_threshold_high(s, threshold) ==
    [result |-> Ok(<<>>), sensor |-> [s EXCEPT !.threshold_high = threshold]]

\* The body of wait_for_relative_humidity_threshold once the alert has
\* been awaited: self.relative_humidity().await
wait_for_relative_humidity_threshold(s) == async_relative_humidity(s)

\* ---- T: an arbitrary implementor ----
\* out is what T's operation yields on this invocation: "Ok" or an error
\* value of T::Error.  What T keeps inside is its own business: the model
\* gives it the sample it reports and nothing else.
T_op(op, arg, s, out) ==
    IF out # "Ok" THEN [result |-> Err(out), sensor |-> s]
    ELSE IF op \in {"sample", "wait_for_threshold"}
         THEN [result |-> Ok(<<s.value>>), sensor |-> s]
         ELSE [result |-> Ok(<<>>), sensor |-> s]

\* The operation op as the driver itself implements it (a call on T, no
\* handle in between).  ncalls counts the driver operations that ran.
MockTempSensor_op(op, arg, s) ==
    CASE op = "sample" -> temperature(s)
      [] op = "set_threshold_low" -> set_temperature_threshold_low(s, arg)
      [] op = "set_threshold_high" -> set_temperature_threshold_high(s, arg)
      [] op = "set_threshold_hysteresis" ->
           set_temperature_threshold_hysteresis(s, arg)

MockHumiditySensor_op(op, arg, s) ==
    CASE op = "sample" -> relative_humidity(s)
      [] op = "set_threshold_low" ->
           set_relative_humidity_threshold_low(s, arg)
      [] op = "set_threshold_high" ->
           set_relative_humidity_threshold_high(s, arg)
      [] op = "set_threshold_hysteresis" ->
           set_relative_humidity_threshold_hysteresis(s, arg)

MockAsyncHumiditySensor_op(op, arg, s) ==
    CASE op = "sample" -> async_relative_humidity(s)
      [] op = "set_threshold_low" ->
           async_set_relative_humidity_threshold_low(s, arg)
      [] op = "set_threshold_high" ->
           async_set_relative_humidity_threshold_high(s, arg)
      [] op = "wait_for_threshold" -> wait_for_relative_humidity_threshold(s)

DriverOp(drv, op, arg, s, out) ==
    LET r ==
        CASE drv.kind = "T" -> T_op(op, arg, s, out)
          [] drv.kind = "MockTempSensor" -> MockTempSensor_op(op, arg, s)
          [] drv.kind = "MockHumiditySensor" -> MockHumiditySensor_op(op, arg, s)
          [] drv.kind = "MockAsyncHumiditySensor" ->
               MockAsyncHumiditySensor_op(op, arg, s)
    IN [result |-> r.result, sensor |-> r.sensor, ncalls |-> 1]

\* ---- the forwarding layer ----
ForwardSwapped(d, drv, op, arg, s, out) ==
    DriverOp(drv,
             IF d > 0 /\ op = "set_threshold_low" THEN "set_threshold_high"
             ELSE op,
             arg, s, out)

ForwardLoop(d, drv, op, arg, s, out) ==
    LET r == DriverOp(drv, op, arg, s, out)
    IN [r EXCEPT !.ncalls = d + 1]

ForwardNested(d, drv, op, arg, s, out) ==
    LET r == DriverOp(drv, op, arg, s, out)
    IN IF d >= 2
       THEN LET r2 == DriverOp(drv, op, arg, r.sensor, out)
            IN [r2 EXCEPT !.ncalls = r.ncalls + r2.ncalls]
       ELSE r

\* Blocking arm of decl_threshold_traits! and the per-quantity sensor
\* modules: impl<T: Cap + ?Sized> Cap for &mut T { fn op(&mut self, x)
\* { T::op(self, x) } }.  d is the number of handles between the caller
\* and the driver; T of one layer is the &mut U of the next.
RECURSIVE Forward(_, _, _, _, _, _)
Forward(d, drv, op, arg, s, out) ==
    IF d = 0 THEN DriverOp(drv, op, arg, s, out)
    ELSE Forward(d - 1, drv, op, arg, s, out)

Pending(s) == [ready |-> FALSE, result |-> NoResult, sensor |-> s, ncalls |-> 0]

\* One poll of the future of the driver's own async operation.  Every
\* operation but the wait has no await of its own and is Ready on its
\* first poll; the wait awaits the threshold alert (ev) first.
DriverPoll(drv, op, arg, s, out, ev) ==
    IF op = "wait_for_threshold" /\ ~ev THEN Pending(s)
    ELSE LET r == DriverOp(drv, op, arg, s, out)
         IN [ready |-> TRUE, result |-> r.result, sensor |-> r.sensor,
             ncalls |-> r.ncalls]

PollForwardRetry(d, drv, op, arg, s, out, ev) ==
    LET r == DriverPoll(drv, op, arg, s, out, ev)
    IN IF d > 0 /\ r.ready /\ r.result.tag = "Err"
       THEN LET r2 == DriverPoll(drv, op, arg, r.sensor, out, ev)
            IN [r2 EXCEPT !.ncalls = r.ncalls + r2.ncalls]
       ELSE r

PollForwardSpurious(d, drv, op, arg, s, out, ev) ==
    LET r == DriverPoll(drv, op, arg, s, out, ev)
    IN IF d > 0 /\ ~r.ready
       THEN [ready |-> TRUE, result |-> Ok(<<s.value>>), sensor |-> s,
             ncalls |-> 0]
       ELSE r

\* Async arm: async fn op(&mut self, x) { T::op(self, x).await }.  A poll
\* of the handle's future polls the inner future and returns what it
\* returns: Pending while it is pending, its output once it is Ready.
RECURSIVE PollForward(_, _, _, _, _, _, _)
PollForward(d, drv, op, arg, s, out, ev) ==
    IF d = 0 THEN DriverPoll(drv, op, arg, s, out, ev)
    ELSE PollForward(d - 1, drv, op, arg, s, out, ev)

\* ---- callers ----
Setters == {"set_threshold_low", "set_threshold_high",
            "set_threshold_hysteresis"}

ArgsOf(op) == IF op \in Setters THEN Thresholds ELSE {0}

Outcomes(drv) ==
    IF drv.kind = "T" THEN {"Ok"} \cup ErrorValues(drv.errType) ELSE {"Ok"}

\* ncalls: the driver operations that have run for this call; resumes: the
\* times this call has handed a result to its caller.
IdleFut ==
    [op |-> "none", arg |-> 0, depth |-> 0, st |-> "idle", ncalls |-> 0,
     resumes |-> 0]

NoCall(s) ==
    [st |-> "none", op |-> "none", arg |-> 0, depth |-> 0,
     out |-> "Ok", pre |-> s, result |-> NoResult, direct |-> NoResult,
     directPost |-> s, ncalls |-> 0, resumes |-> 0, suspended |-> FALSE]

CanBorrowShared(c) == TRUE

\* Every operation takes &mut self: a caller may use the driver, directly
\* or through handles it makes, only while nobody else borrows it.
CanBorrow(c) == holder = 0

\* The exclusive borrow ends only after the call that uses it has
\* returned or its future has been dropped.
CanRelease(c) == holder = c /\ fut[c].st = "idle"

Completed(f, out, r, dr, wasPending) ==
    [st |-> "done", op |-> f.op, arg |-> f.arg,
     depth |-> f.depth, out |-> out, pre |-> sensor, result |-> r.result,
     direct |-> dr.result, directPost |-> dr.sensor,
     ncalls |-> f.ncalls + r.ncalls, resumes |-> f.resumes + 1,
     suspended |-> wasPending]

\* The arguments of the most recent set-low and set-high calls on a mock.
Recent(f) ==
    CASE driver.kind \in MockKinds /\ f.op = "set_threshold_low" ->
           [recent EXCEPT !.low = Some(f.arg)]
      [] driver.kind \in MockKinds /\ f.op = "set_threshold_high" ->
           [recent EXCEPT !.high = Some(f.arg)]
      [] OTHER -> recent

\* No macro invocation is being expanded while the callers run.
NoBuild ==
    [site |-> "none", tokens |-> <<>>, st |-> "none", arm |-> "none",
     pos |-> 0, items |-> <<>>]

Init ==
    /\ driver \in Drivers
    /\ sensor \in {MockSensor(driver.kind, v) : v \in {TestValue(driver.kind), 0}}
    /\ holder = 0
    /\ fut = [c \in Callers |-> IdleFut]
    /\ alert = FALSE
    /\ last = NoCall(sensor)
    /\ recent = [low |-> None, high |-> None]
    /\ classified = "none"
    /\ constructed = sensor
    /\ build = NoBuild

\* let handle = &mut sensor (or the implicit borrow of a direct call)
Acquire(c) ==
    /\ CanBorrow(c)
    /\ holder' = c
    /\ UNCHANGED <<constructed, build, driver, sensor, fut, alert, last, recent, classified>>

Release(c) ==
    /\ CanRelease(c)
    /\ holder' = 0
    /\ UNCHANGED <<constructed, build, driver, sensor, fut, alert, last, recent, classified>>

\* The caller calls op through d handles.  In the blocking profile the
\* call is now running; in the async profile it has made a future, which
\* does nothing until it is polled.
Invoke(c, op, arg, d) ==
    /\ holder = c
    /\ fut[c].st = "idle"
    /\ op \in Capabilities(driver)
    /\ fut' = [fut EXCEPT ![c] =
                 [op |-> op, arg |-> arg, depth |-> d,
                  st |-> IF driver.profile = "blocking" THEN "running"
                         ELSE "created",
                  ncalls |-> 0, resumes |-> 0]]
    /\ last' = NoCall(sensor)
    /\ classified' = "none"
    /\ UNCHANGED <<constructed, build, driver, sensor, holder, alert, recent>>

\* Blocking profile: the call runs to its return.
Return(c) ==
    /\ driver.profile = "blocking"
    /\ fut[c].st = "running"
    /\ \E out \in Outcomes(driver) :
         LET f == fut[c]
             r == Forward(f.depth, driver, f.op, f.arg, sensor, out)
             dr == DriverOp(driver, f.op, f.arg, sensor, out)
         IN /\ sensor' = r.sensor
            /\ last' = Completed(f, out, r, dr, FALSE)
            /\ recent' = Recent(f)
    /\ fut' = [fut EXCEPT ![c] = IdleFut]
    /\ UNCHANGED <<constructed, build, driver, holder, alert, classified>>

\* Async profile: the executor polls the caller's future.  Ready resumes
\* the caller with the output and consumes the future.
Poll(c) ==
    /\ driver.profile = "async"
    /\ fut[c].st \in {"created", "pending"}
    /\ \E out \in Outcomes(driver) :
         LET f == fut[c]
             r == PollForward(f.depth, driver, f.op, f.arg, sensor, out, alert)
             dr == DriverPoll(driver, f.op, f.arg, sensor, out, alert)
         IN /\ sensor' = r.sensor
            /\ IF r.ready
               THEN /\ last' = Completed(f, out, r, dr, f.st = "pending")
                    /\ recent' = Recent(f)
                    /\ fut' = [fut EXCEPT ![c] = IdleFut]
                    /\ alert' = IF f.op = "wait_for_threshold" THEN FALSE
                                ELSE alert
               ELSE /\ fut' = [fut EXCEPT ![c].st = "pending",
                                          ![c].ncalls = @ + r.ncalls]
                    /\ UNCHANGED <<last, recent, alert>>
    /\ UNCHANGED <<constructed, build, driver, holder, classified>>

\* The caller drops a future it has not polled to completion.
Drop(c) ==
    /\ driver.profile = "async"
    /\ fut[c].st \in {"created", "pending"}
    /\ fut' = [fut EXCEPT ![c] = IdleFut]
    /\ UNCHANGED <<constructed, build, driver, sensor, holder, alert, last, recent, classified>>

\* The driver's alert line signals a threshold crossing.
Alert ==
    /\ driver.profile = "async"
    /\ ~alert
    /\ alert' = TRUE
    /\ UNCHANGED <<constructed, build, driver, sensor, holder, fut, last, recent, classified>>

\* Generic error handling: the caller asks the error it got for its kind.
Classify ==
    /\ last.st = "done"
    /\ last.result.tag = "Err"
    /\ classified = "none"
    /\ classified' = kind(HandleErrorType(last.depth, driver.errType),
                          last.result.err)
    /\ UNCHANGED <<constructed, build, driver, sensor, holder, fut, alert, last, recent>>

Next ==
    \/ \E c \in Callers : Acquire(c)
    \/ \E c \in Callers : Release(c)
    \/ \E c \in Callers, op \in Ops, d \in Depths :
         \E arg \in ArgsOf(op) : Invoke(c, op, arg, d)
    \/ \E c \in Callers : Return(c)
    \/ \E c \in Callers : Poll(c)
    \/ \E c \in Callers : Drop(c)
    \/ Alert
    \/ Classify

Spec == Init /\ [][Next]_vars

\* ---- decl_threshold_traits! (sensor.rs) ----
\* An identifier is the sequence of its capitalised words; every macro
\* argument is a sequence of strings, so `blocking` is <<"blocking">>.
Words == {"Temperature", "Relative", "Humidity"}

Lower(w) ==
    CASE w = "Temperature" -> "temperature"
      [] w = "Relative" -> "relative"
      [] w = "Humidity" -> "humidity"

Idents == UNION {[1..n -> Words] : n \in 1..MaxWords}

\* paste: [<$SensorName ThresholdSet>] joins the identifier as written.
RECURSIVE Camel(_)
Camel(ws) == IF ws = <<>> THEN "" ELSE Head(ws) \o Camel(Tail(ws))

\* paste: $SensorName:snake lowers each word and joins them with "_".
RECURSIVE Snake(_)
Snake(ws) ==
    IF Len(ws) = 1 THEN Lower(ws[1])
    ELSE Lower(ws[1]) \o "_" \o Snake(Tail(ws))

\* The invocations of the macro in the repository, as written.
RepositoryInvocations ==
    {[site |-> "embedded-sensors/src/temperature.rs",
      tokens |-> << <<"blocking">>, <<"Temperature">>,
                    <<"Temperature", "Sensor">>, <<"DegreesCelsius">>,
                    <<"degrees Celsius">> >>],
     [site |-> "embedded-sensors/src/humidity.rs",
      tokens |-> << <<"blocking">>, <<"Relative", "Humidity">>,
                    <<"Relative", "Humidity", "Sensor">>, <<"Percentage">>,
                    <<"percentage">> >>],
     [site |-> "embedded-sensors-async/src/humidity.rs",
      tokens |-> << <<"Relative", "Humidity">>,
                    <<"Relative", "Humidity", "Sensor">>, <<"Percentage">>,
                    <<"percentage">> >>]}

\* The macro is exported: any other crate may invoke it, with a mode or,
\* by mistake, without one.
OtherInvocations ==
    {[site |-> "any",
      tokens |-> mode \o << q, q \o <<"Sensor">>, <<"Percentage">>,
                            <<"percentage">> >>] :
        mode \in {<< <<"blocking">> >>, << <<"async">> >>, <<>>},
        q \in Idents}

Invocations == RepositoryInvocations \cup OtherInvocations

\* macro_rules tries the arms in order: (blocking, $SensorName:ident,
\* $SensorTrait:ident, $SampleType:ty, $unit:expr), then the same with
\* async; an invocation that matches neither does not compile.
MatchArm(tokens) ==
    IF Len(tokens) = 5 /\ tokens[1] = <<"blocking">> THEN "blocking"
    ELSE IF Len(tokens) = 5 /\ tokens[1] = <<"async">> THEN "async"
    ELSE "no_match"

Method(name, param, ret, isAsync) ==
    [name |-> name, param |-> param, ret |-> ret, async |-> isAsync]

ThresholdSetMethods(q, ty, isAsync) ==
    {Method("set_" \o Snake(q) \o "_threshold_low", ty, "()", isAsync),
     Method("set_" \o Snake(q) \o "_threshold_high", ty, "()", isAsync)}

HysteresisMethods(q, ty, isAsync) ==
    {Method("set_" \o Snake(q) \o "_threshold_hysteresis", ty, "()", isAsync)}

ThresholdWaitMethods(q, ty) ==
    {Method("wait_for_" \o Snake(q) \o "_threshold", "none", ty, TRUE)}

Item(k, name, super, methods) ==
    [kind |-> k, name |-> name, super |-> super, methods |-> methods]

\* The items of the blocking arm, in the order the arm writes them.
BlockingArm(q, sensorTrait, ty) ==
    << Item("trait", Camel(q) \o "ThresholdSet", Camel(sensorTrait),
            ThresholdSetMethods(q, ty, FALSE)),
       Item("trait", Camel(q) \o "Hysteresis", Camel(q) \o "ThresholdSet",
            HysteresisMethods(q, ty, FALSE)),
       Item("impl for &mut T", Camel(q) \o "ThresholdSet",
            Camel(q) \o "ThresholdSet", ThresholdSetMethods(q, ty, FALSE)),
       Item("impl for &mut T", Camel(q) \o "Hysteresis",
            Camel(q) \o "Hysteresis", HysteresisMethods(q, ty, FALSE)) >>

AsyncArmHysteresisOnWait(q, sensorTrait, ty) ==
    << Item("trait", Camel(q) \o "ThresholdSet", Camel(sensorTrait),
            ThresholdSetMethods(q, ty, TRUE)),
       Item("trait", Camel(q) \o "ThresholdWait", Camel(q) \o "ThresholdSet",
            ThresholdWaitMethods(q, ty)),
       Item("trait", Camel(q) \o "Hysteresis", Camel(q) \o "ThresholdWait",
            HysteresisMethods(q, ty, TRUE)),
       Item("impl for &mut T", Camel(q) \o "ThresholdSet",
            Camel(q) \o "ThresholdSet", ThresholdSetMethods(q, ty, TRUE)),
       Item("impl for &mut T", Camel(q) \o "ThresholdWait",
            Camel(q) \o "ThresholdWait", ThresholdWaitMethods(q, ty)),
       Item("impl for &mut T", Camel(q) \o "Hysteresis",
            Camel(q) \o "Hysteresis", HysteresisMethods(q, ty, TRUE)) >>

\* The items of the async arm, in the order the arm writes them.
AsyncArm(q, sensorTrait, ty) ==
    << Item("trait", Camel(q) \o "ThresholdSet", Camel(sensorTrait),
            ThresholdSetMethods(q, ty, TRUE)),
       Item("trait", Camel(q) \o "ThresholdWait", Camel(q) \o "ThresholdSet",
            ThresholdWaitMethods(q, ty)),
       Item("trait", Camel(q) \o "Hysteresis", Camel(q) \o "ThresholdSet",
            HysteresisMethods(q, ty, TRUE)),
       Item("impl for &mut T", Camel(q) \o "ThresholdSet",
            Camel(q) \o "ThresholdSet", ThresholdSetMethods(q, ty, TRUE)),
       Item("impl for &mut T", Camel(q) \o "ThresholdWait",
            Camel(q) \o "ThresholdWait", ThresholdWaitMethods(q, ty)),
       Item("impl for &mut T", Camel(q) \o "Hysteresis",
            Camel(q) \o "Hysteresis", HysteresisMethods(q, ty, TRUE)) >>

\* The expansion of a matched invocation: its arm with the arguments put in.
Expansion(arm, tokens) ==
    IF arm = "blocking" THEN BlockingArm(tokens[2], tokens[3], tokens[4][1])
    ELSE AsyncArm(tokens[2], tokens[3], tokens[4][1])

BuildInit ==
    /\ build \in {[site |-> i.site, tokens |-> i.tokens, st |-> "invoked",
                   arm |-> "none", pos |-> 0, items |-> <<>>] :
                    i \in Invocations}
    /\ driver = [kind |-> "T", profile |-> "blocking", errType |-> "Infallible"]
    /\ sensor = MockSensor("T", TEST_TEMP)
    /\ holder = 0
    /\ fut = [c \in Callers |-> IdleFut]
    /\ alert = FALSE
    /\ last = NoCall(sensor)
    /\ recent = [low |-> None, high |-> None]
    /\ classified = "none"
    /\ constructed = sensor

\* The compiler matches the invocation against the arms of the macro.
Match ==
    /\ build.st = "invoked"
    /\ LET arm == MatchArm(build.tokens)
       IN build' = [build EXCEPT
                      !.arm = arm,
                      !.st = IF arm = "no_match" THEN "error" ELSE "expanding"]
    /\ UNCHANGED <<driver, sensor, holder, fut, alert, last, recent,
                   classified, constructed>>

\* The matched arm writes its next item into the invoking module.
Emit ==
    /\ build.st = "expanding"
    /\ LET items == Expansion(build.arm, build.tokens)
       IN build' = [build EXCEPT
                      !.items = Append(@, items[build.pos + 1]),
                      !.pos = @ + 1,
                      !.st = IF build.pos + 1 = Len(items) THEN "done"
                             ELSE "expanding"]
    /\ UNCHANGED <<driver, sensor, holder, fut, alert, last, recent,
                   classified, constructed>>

BuildNext == Match \/ Emit

BuildSpec == BuildInit /\ [][BuildNext]_vars

\* ---- properties ----
Active(c) == fut[c].st # "idle"

\* C1: an operation invoked through a handle (&mut T, to any modelled
\* depth) returns the result and leaves the driver in the state that the
\* same operation invoked directly on the driver gives.
ForwardingEquivalent ==
    last.st = "done" =>
        /\ last.result = last.direct
        /\ sensor = last.directPost

ForwardingWitness ==
    /\ last.st = "done"
    /\ last.depth >= 1
    /\ last.op = "set_threshold_low"
    /\ sensor # last.pre

\* C2: on a mock driver the stored low bound is the argument of the most
\* recent set-low call and the stored high bound that of the most recent
\* set-high call, a bound never set keeps its initial value, and neither
\* setter changes the other bound.
SettersIndependent ==
    driver.kind \in MockKinds =>
        /\ sensor.threshold_low =
             IF recent.low = None THEN InitialThreshold(driver.kind)
             ELSE StoredThreshold(driver.kind, recent.low[1])
        /\ sensor.threshold_high =
             IF recent.high = None THEN InitialThreshold(driver.kind)
             ELSE StoredThreshold(driver.kind, recent.high[1])
        /\ (last.st = "done" /\ last.op = "set_threshold_low") =>
             sensor.threshold_high = last.pre.threshold_high
        /\ (last.st = "done" /\ last.op = "set_threshold_high") =>
             sensor.threshold_low = last.pre.threshold_low

SettersWitness ==
    /\ driver.kind \in MockKinds
    /\ last.st = "done"
    /\ last.op = "set_threshold_high"
    /\ recent.low # None
    /\ recent.high # None
    /\ recent.low # recent.high

\* C3: after a successful set-hysteresis(B) on a mock implementing
\* Hysteresis the stored hysteresis is B, whatever bounds were set before,
\* and the low and high bounds are as they were before the call.
HysteresisStored ==
    (/\ driver.kind \in MockKinds
     /\ last.st = "done"
     /\ last.op = "set_threshold_hysteresis"
     /\ last.result.tag = "Ok") =>
        /\ sensor.hysteresis = Some(last.arg)
        /\ sensor.threshold_low = last.pre.threshold_low
        /\ sensor.threshold_high = last.pre.threshold_high

HysteresisWitness ==
    /\ driver.kind \in MockKinds
    /\ last.st = "done"
    /\ last.op = "set_threshold_hysteresis"
    /\ last.result.tag = "Ok"
    /\ sensor.threshold_low # None
    /\ sensor.threshold_high = None
    /\ sensor.hysteresis # sensor.threshold_low

\* C4: every read of a mock driver, direct or through handles, returns Ok
\* with exactly the stored sample and leaves the stored sample as it was.
ReadReturnsStored ==
    (/\ driver.kind \in MockKinds
     /\ last.st = "done"
     /\ last.op = "sample") =>
        /\ last.result = Ok(<<last.pre.value>>)
        /\ sensor.value = last.pre.value

ReadWitness ==
    /\ driver.kind \in MockKinds
    /\ last.st = "done"
    /\ last.op = "sample"
    /\ last.depth >= 1
    /\ last.result = Ok(<<0>>)
    /\ sensor.threshold_low # InitialThreshold(driver.kind)

\* C5: kind() of an ErrorKind value is that value, for each of the five
\* values, and asking for it changes nothing in the driver.
ErrorKindIdentity ==
    /\ \A k \in ErrorKind : ErrorKind_kind(k) = k
    /\ (driver.errType = "ErrorKind" /\ classified # "none") =>
         /\ classified = last.result.err
         /\ sensor = last.directPost

ErrorKindWitness ==
    /\ driver.errType = "ErrorKind"
    /\ classified = "Saturated"

\* C6: every error value has exactly one ErrorKind, and an error of a
\* driver whose error type is MockError, returned by any operation directly
\* or through handles, is classified Other by a caller that only calls
\* kind().
MockErrorIsOther ==
    /\ \A E \in {"MockError", "ErrorKind"} :
         \A e \in ErrorValues(E) : kind(E, e) \in ErrorKind
    /\ classified # "none" =>
         /\ classified \in ErrorKind
         /\ last.result.tag = "Err"
         /\ driver.errType = "MockError" => classified = "Other"

MockErrorWitness ==
    /\ driver.errType = "MockError"
    /\ last.depth >= 1
    /\ last.op = "wait_for_threshold"
    /\ last.result = Err("MockError")
    /\ classified = "Other"

\* C7: the forwarding layer runs the driver operation exactly once per
\* call, and the call's result is the driver's: an error of the driver is
\* the call's error and a success is never made of an error.
ErrorsSurfaceVerbatim ==
    last.st = "done" =>
        /\ last.ncalls = 1
        /\ last.out # "Ok" => last.result = Err(last.out)
        /\ last.out = "Ok" => last.result.tag = "Ok"

ErrorsSurfaceWitness ==
    /\ last.st = "done"
    /\ driver.profile = "async"
    /\ last.depth >= 1
    /\ last.out = "NotReady"
    /\ last.result = Err("NotReady")

\* C8: a wait on the async mock completes with Ok of the stored sample,
\* directly or through handles, and leaves the low and high bounds as
\* they were.
WaitReturnsSample ==
    (/\ driver.kind \in AsyncMocks
     /\ last.st = "done"
     /\ last.op = "wait_for_threshold") =>
        /\ last.result = Ok(<<last.pre.value>>)
        /\ sensor.threshold_low = last.pre.threshold_low
        /\ sensor.threshold_high = last.pre.threshold_high

WaitWitness ==
    /\ driver.kind \in AsyncMocks
    /\ last.st = "done"
    /\ last.op = "wait_for_threshold"
    /\ last.suspended
    /\ last.depth >= 1
    /\ last.result = Ok(<<TEST_HUMIDITY>>)
    /\ sensor.threshold_low # TEST_INITIAL_THRESHOLD

\* C9: an async call resumes its caller at most once, only with a definite
\* result and only when the driver operation has completed; while its
\* future is pending the driver operation has not completed.
ResumedExactlyOnce ==
    driver.profile = "async" =>
        /\ last.st = "done" =>
             /\ last.resumes = 1
             /\ last.ncalls = 1
             /\ last.result.tag \in {"Ok", "Err"}
        /\ \A c \in Callers :
             Active(c) => fut[c].ncalls = 0 /\ fut[c].resumes = 0

ResumedWitness ==
    /\ driver.profile = "async"
    /\ last.st = "done"
    /\ last.suspended
    /\ last.depth >= 1
    /\ last.result.tag = "Err"

\* C10: at most one operation is in progress on the driver, and it is the
\* operation of the caller that holds the exclusive borrow.
ExclusiveAccess ==
    /\ Cardinality({c \in Callers : Active(c)}) <= 1
    /\ \A c \in Callers : Active(c) => holder = c

ExclusiveWitness ==
    \E c \in Callers : fut[c].st = "pending" /\ holder = c

\* C13: on the mock drivers set-low and set-high succeed for every value
\* and in every state and store their argument, also when the low bound
\* then exceeds the high bound; neither returns an error.
NoOrderingEnforced ==
    (/\ driver.kind \in MockKinds
     /\ last.st = "done"
     /\ last.op \in {"set_threshold_low", "set_threshold_high"}) =>
        /\ last.result = Ok(<<>>)
        /\ last.op = "set_threshold_low" =>
             sensor.threshold_low = StoredThreshold(driver.kind, last.arg)
        /\ last.op = "set_threshold_high" =>
             sensor.threshold_high = StoredThreshold(driver.kind, last.arg)

NoOrderingWitness ==
    /\ driver.kind \in BlockingMocks
    /\ last.st = "done"
    /\ last.op = "set_threshold_low"
    /\ last.result = Ok(<<>>)
    /\ sensor.threshold_high # None
    /\ sensor.threshold_low # None
    /\ sensor.threshold_low[1] > sensor.threshold_high[1]

\* C14: a blocking call, direct or through handles, is never suspended:
\* while it runs it can return, and when it has returned the driver
\* operation ran once and the caller has a result.
BlockingRunsToCompletion ==
    driver.profile = "blocking" =>
        /\ \A c \in Callers :
             /\ fut[c].st \in {"idle", "running"}
             /\ fut[c].st = "running" => ENABLED Return(c)
        /\ last.st = "done" =>
             /\ ~last.suspended
             /\ last.ncalls = 1
             /\ last.result.tag \in {"Ok", "Err"}

BlockingWitness ==
    /\ driver.profile = "blocking"
    /\ last.st = "done"
    /\ last.depth >= 1
    /\ last.op = "set_threshold_hysteresis"
    /\ last.result.tag = "Ok"

\* C15: a driver whose error type is Infallible never returns an error,
\* from any operation at any handle depth, and kind() is never asked of it.
InfallibleNeverFails ==
    driver.errType = "Infallible" =>
        /\ last.st = "done" => last.result.tag = "Ok"
        /\ last.result.tag # "Err"
        /\ classified = "none"

InfallibleWitness ==
    /\ driver.errType = "Infallible"
    /\ driver.profile = "async"
    /\ last.st = "done"
    /\ last.depth >= 1
    /\ last.op = "wait_for_threshold"
    /\ last.result = Ok(<<TEST_HUMIDITY>>)

\* C16: a call through two or more handles runs the driver operation once
\* with the caller's argument, returns the driver's result, and has the
\* driver's error type.
ForwardingComposes ==
    (last.st = "done" /\ last.depth >= 2) =>
        /\ last.ncalls = 1
        /\ last.result = last.direct
        /\ sensor = last.directPost
        /\ HandleErrorType(last.depth, driver.errType) = driver.errType
        /\ (driver.kind \in MockKinds /\ last.op = "set_threshold_low") =>
             sensor.threshold_low = StoredThreshold(driver.kind, last.arg)
        /\ (driver.kind \in MockKinds /\ last.op = "set_threshold_high") =>
             sensor.threshold_high = StoredThreshold(driver.kind, last.arg)

ForwardingComposesWitness ==
    /\ driver.kind \in MockKinds
    /\ last.st = "done"
    /\ last.depth >= 2
    /\ last.op = "set_threshold_high"
    /\ sensor # last.pre

\* C17: on the mock drivers a read or a wait changes no field, each setter
\* changes at most its own field, and a read returns the sample the
\* driver was constructed with.
MockFrame ==
    driver.kind \in MockKinds =>
        /\ sensor.value = constructed.value
        /\ last.st = "done" =>
             CASE last.op \in {"sample", "wait_for_threshold"} ->
                    /\ sensor = last.pre
                    /\ last.result = Ok(<<constructed.value>>)
               [] last.op = "set_threshold_low" ->
                    sensor = [last.pre EXCEPT
                                !.threshold_low = sensor.threshold_low]
               [] last.op = "set_threshold_high" ->
                    sensor = [last.pre EXCEPT
                                !.threshold_high = sensor.threshold_high]
               [] last.op = "set_threshold_hysteresis" ->
                    sensor = [last.pre EXCEPT
                                !.hysteresis = sensor.hysteresis]

MockFrameWitness ==
    /\ driver.kind \in BlockingMocks
    /\ last.st = "done"
    /\ last.op = "sample"
    /\ sensor.threshold_low # None
    /\ sensor.threshold_high # None
    /\ sensor.hysteresis # None
    /\ last.result = Ok(<<TestValue(driver.kind)>>)

\* ---- the two profiles of the macro ----
TraitsOf(items) ==
    {[name |-> items[i].name, super |-> items[i].super,
      ops |-> {m.name : m \in items[i].methods}] :
        i \in {j \in 1..Len(items) : items[j].kind = "trait"}}

ForwardedBy(items) ==
    {[name |-> items[i].name, ops |-> {m.name : m \in items[i].methods}] :
        i \in {j \in 1..Len(items) : items[j].kind = "impl for &mut T"}}

WaitTrait(q) ==
    [name |-> Camel(q) \o "ThresholdWait", super |-> Camel(q) \o "ThresholdSet",
     ops |-> {"wait_for_" \o Snake(q) \o "_threshold"}]

WaitForward(q) ==
    [name |-> Camel(q) \o "ThresholdWait",
     ops |-> {"wait_for_" \o Snake(q) \o "_threshold"}]

\* C11: for one and the same quantity, the traits an async expansion
\* produces are the traits the blocking expansion produces (same trait
\* names, same supertraits, same operation names, same forwarding for
\* &mut T) plus exactly the threshold-wait trait, whose supertrait is the
\* threshold-set trait; a blocking expansion produces no wait trait.
ProfilesParallel ==
    build.st = "done" =>
        LET q == build.tokens[2]
            blocking == BlockingArm(q, build.tokens[3], build.tokens[4][1])
            async == AsyncArm(q, build.tokens[3], build.tokens[4][1])
        IN /\ build.arm = "async" =>
                /\ TraitsOf(build.items) = TraitsOf(blocking) \cup {WaitTrait(q)}
                /\ WaitTrait(q) \notin TraitsOf(blocking)
                /\ ForwardedBy(build.items)
                     = ForwardedBy(blocking) \cup {WaitForward(q)}
                /\ \A i \in 1..Len(build.items) :
                     \A m \in build.items[i].methods : m.async
           /\ build.arm = "blocking" =>
                /\ TraitsOf(build.items) = TraitsOf(async) \ {WaitTrait(q)}
                /\ WaitTrait(q) \in TraitsOf(async)
                /\ ForwardedBy(build.items)
                     = ForwardedBy(async) \ {WaitForward(q)}
                /\ \A i \in 1..Len(build.items) :
                     \A m \in build.items[i].methods : ~m.async
           /\ build.site = "embedded-sensors/src/humidity.rs" =>
                TraitsOf(build.items) =
                  {[name |-> "RelativeHumidityThresholdSet",
                    super |-> "RelativeHumiditySensor",
                    ops |-> {"set_relative_humidity_threshold_low",
                             "set_relative_humidity_threshold_high"}],
                   [name |-> "RelativeHumidityHysteresis",
                    super |-> "RelativeHumidityThresholdSet",
                    ops |-> {"set_relative_humidity_threshold_hysteresis"}]}

ProfilesParallelWitness ==
    /\ build.st = "done"
    /\ build.arm = "async"
    /\ build.tokens[2] = <<"Relative", "Humidity">>
    /\ Len(build.items) = 6

\* C12: every invocation of the macro in the repository matches one of the
\* two modes, and the invocation in the async crate selects the async mode
\* and produces the threshold-set, threshold-wait and hysteresis traits.
AsyncCrateSelectsAsync ==
    (build.site # "any" /\ build.st # "invoked") =>
        /\ build.arm \in {"blocking", "async"}
        /\ build.site = "embedded-sensors-async/src/humidity.rs" =>
             /\ build.arm = "async"
             /\ build.st = "done" =>
                  {t.name : t \in TraitsOf(build.items)} =
                    {"RelativeHumidityThresholdSet",
                     "RelativeHumidityThresholdWait",
                     "RelativeHumidityHysteresis"}

====
